---- MODULE Spec2Model ----
(***************************************************************************)
(* Model of mirrors/views/__init__.py: the mirror list, mirror detail,     *)
(* URL detail and status views, the conditional-GET and page-cache         *)
(* decorators around the status views, and the timedelta rule of the JSON  *)
(* encoder.                                                                *)
(*                                                                         *)
(* Python's None is the empty sequence and a present value v is <<v>>, so  *)
(* that,  as in Python, None differs from every value including 0.         *)
(***************************************************************************)
EXTENDS Integers, Sequences, FiniteSets, TLC

VARIABLES
    mirror_db,      \* Mirror rows: id -> [public, active]
    url_db,         \* MirrorUrl rows: id -> [mirror_id, country, active, log]
    status_urls,    \* what get_mirror_statuses() returns to the status views
    check_times,    \* the check_time column of mirrors_mirrorlog
    cache,          \* the page cache of status_json: tier key -> response
    td,             \* the timedelta handed to the encoder
    resp            \* the outcome of the last request

vars == <<mirror_db, url_db, status_urls, check_times, cache, td, resp>>

\* ------------------------------------------------------------------ bounds
MaxMirrors == 2
MaxUrls == 3
MaxStatusUrls == 3
MaxSec == 2
MaxDays == 2

\* ------------------------------------------------------- Python's None
None == << >>
Some(v) == <<v>>
IsNone(x) == x = None
Val(x) == x[1]

\* ---------------------------------------------------------- the tables
MirrorIds == 1..MaxMirrors
UrlIds == 1..MaxUrls
\* Mirror.name is unique: the mirror's name stands for itself, and one more
\* name is requested that no mirror has.
Names == 1..(MaxMirrors + 1)
UrlIdArgs == 1..(MaxUrls + 1)

\* Mirror.tier: mirror 1 is tier 1, the others tier 0
MirrorTier(m) == IF m = 1 THEN 1 ELSE 0
\* MirrorUrl.url, as its rank in string order (unique, not in id order)
UrlString(u) == MaxUrls + 1 - u
\* MirrorUrl.protocol
UrlProtocol(u) == IF u <= 2 THEN "http" ELSE "rsync"
\* the mirror and country a URL has where the tables are fixed
UrlMirror(u) == IF u <= 2 THEN 1 ELSE ((u - 2) % MaxMirrors) + 1
UrlCountry(u) == IF u % 2 = 1 THEN "DE" ELSE "US"
\* the database's collation of the strings the views order by
Ord(s) == CASE s = "DE" -> 1 [] s = "US" -> 2 [] s = "http" -> 1 [] s = "rsync" -> 2

\* ----------------------------------------------------- sorting, grouping
\* Sort keys are tuples of integers of one length, compared as Python
\* compares tuples (a timedelta compares as (days, seconds, microseconds)).
RECURSIVE KeyLess(_, _)
KeyLess(a, b) ==
    IF a = << >> THEN FALSE
    ELSE IF Head(a) # Head(b) THEN Head(a) < Head(b)
    ELSE KeyLess(Tail(a), Tail(b))

\* sorted(seq, key=...): stable, ascending; keys[i] is the key of seq[i].
\* InsertIdx puts index x behind every index whose key is not greater.
RECURSIVE InsertIdx(_, _, _)
InsertIdx(x, p, keys) ==
    IF p = << >> THEN <<x>>
    ELSE IF KeyLess(keys[x], keys[Head(p)]) THEN <<x>> \o p
    ELSE <<Head(p)>> \o InsertIdx(x, Tail(p), keys)

RECURSIVE SortedIdx(_, _)
SortedIdx(n, keys) ==
    IF n = 0 THEN << >> ELSE InsertIdx(n, SortedIdx(n - 1, keys), keys)

Sorted(s, keys) ==
    LET p == SortedIdx(Len(s), keys) IN [i \in 1..Len(s) |-> s[p[i]]]

\* the elements of a set in some order (a Python set's iteration order)
RECURSIVE SetToSeq(_)
SetToSeq(S) ==
    IF S = {} THEN << >>
    ELSE LET x == CHOOSE y \in S : TRUE IN <<x>> \o SetToSeq(S \ {x})

\* ORDER BY first, second over (mirror_id, string) pairs, DISTINCT
PairKey(p) == <<p[1], Ord(p[2])>>
OrderedPairs(S) ==
    LET s == SetToSeq(S) IN Sorted(s, [i \in DOMAIN s |-> PairKey(s[i])])

\* {k: list(v) for k, v in groupby(pairs, key=itemgetter(0))}: groupby makes
\* one group per run of equal keys; the dict keeps the last group of a key.
RECURSIVE RunLength(_, _)
RunLength(s, k) ==
    IF s = << >> \/ Head(s)[1] # k THEN 0 ELSE 1 + RunLength(Tail(s), k)

RECURSIVE Groups(_)
Groups(s) ==
    IF s = << >> THEN << >>
    ELSE LET n == RunLength(s, Head(s)[1])
         IN <<SubSeq(s, 1, n)>> \o Groups(SubSeq(s, n + 1, Len(s)))

GroupDict(s) ==
    LET gs == Groups(s)
        keys == {gs[i][1][1] : i \in DOMAIN gs}
    IN [k \in keys |->
          gs[CHOOSE i \in DOMAIN gs :
                /\ gs[i][1][1] = k
                /\ \A j \in DOMAIN gs : gs[j][1][1] = k => j <= i]]

\* dict.get(k, [])
DictGet(d, k) == IF k \in DOMAIN d THEN d[k] ELSE << >>

\* [item[1] for item in items]
Seconds(items) == [i \in DOMAIN items |-> items[i][2]]

\* ------------------------------------------------------------- responses
\* What a request ended in: the request itself, the outcome ("ok",
\* "not_found" for Http404, "not_modified" for HttpResponseNotModified),
\* the collaborators called in order, and what was handed to the output.
Idle == [view |-> "none"]
Http404(req) ==
    [view |-> req.view, req |-> req, outcome |-> "not_found",
     calls |-> << >>, data |-> None]
Rendered(req, calls, data) ==
    [view |-> req.view, req |-> req, outcome |-> "ok",
     calls |-> calls, data |-> Some(data)]

\* ------------------------------------------------------------ the queries
\* filter(public=True, active=True) on a mirror
PublicActive(m) == mirror_db[m].public /\ mirror_db[m].active

\* Mirror.objects.select_related().order_by('tier', 'name'), filtered to
\* public and active mirrors for an unauthenticated user
MirrorList(authenticated) ==
    LET s == SetToSeq({m \in MirrorIds : authenticated \/ PublicActive(m)})
    IN Sorted(s, [i \in DOMAIN s |-> <<MirrorTier(s[i]), s[i]>>])

\* the MirrorUrl rows behind the protos and countries queries: all of them,
\* or filter(mirror__public=True, mirror__active=True, active=True)
ListUrls(authenticated) ==
    {u \in UrlIds : authenticated
                    \/ (PublicActive(url_db[u].mirror_id) /\ url_db[u].active)}

\* values_list('mirror_id', 'protocol__protocol').order_by(...).distinct()
ProtoPairs(authenticated) ==
    OrderedPairs({<<url_db[u].mirror_id, UrlProtocol(u)>> :
                    u \in ListUrls(authenticated)})

\* values_list('mirror_id', 'country').order_by(...).distinct()
CountryPairs(authenticated) ==
    OrderedPairs({<<url_db[u].mirror_id, url_db[u].country>> :
                    u \in ListUrls(authenticated)})

\* (mutant: a country is resolved as soon as there is one, len(...) >= 1)
ListItemFirstCountry(m, protos, countries) ==
    LET item_protos == DictGet(protos, m)
        item_countries == DictGet(countries, m)
    IN [id |-> m,
        protocols |-> Seconds(item_protos),
        country |-> IF Len(item_countries) >= 1
                    THEN Some(item_countries[1][2]) ELSE None]

\* the loop body of mirrors(): mirror.protocols and mirror.country
ListItem(m, protos, countries) ==
    LET item_protos == DictGet(protos, m)
        item_countries == DictGet(countries, m)
    IN [id |-> m,
        protocols |-> Seconds(item_protos),
        country |-> IF Len(item_countries) = 1
                    THEN Some(item_countries[1][2]) ELSE None]

\* get_object_or_404(Mirror, name=name)
MirrorByName(name) == IF name \in MirrorIds THEN Some(name) ELSE None

\* get_object_or_404(MirrorUrl.objects.select_related(), id=url_id,
\*                   mirror__name=name)
UrlByIdAndName(url_id, name) ==
    IF url_id \in UrlIds /\ url_db[url_id].mirror_id = name
    THEN Some(url_id) ELSE None

\* (mutant: the active flag is not looked at)
MirrorHiddenPublicOnly(authorized, m) == ~authorized /\ ~mirror_db[m].public

\* not authorized and (not mirror.public or not mirror.active)
MirrorHidden(authorized, m) ==
    ~authorized /\ (~mirror_db[m].public \/ ~mirror_db[m].active)

\* not authorized and (not mirror.public or not mirror.active
\*                     or not url.active)
UrlHidden(authorized, u) ==
    ~authorized /\ (\/ ~mirror_db[url_db[u].mirror_id].public
                    \/ ~mirror_db[url_db[u].mirror_id].active
                    \/ ~url_db[u].active)

\* mirror.urls.select_related('protocol'), filtered to active URLs for an
\* unauthorized user; set(all_urls)
MirrorUrls(authorized, m) ==
    {[id |-> u, url |-> UrlString(u)] :
        u \in {v \in UrlIds : /\ url_db[v].mirror_id = m
                              /\ (authorized \/ url_db[v].active)}}

\* ------------------------------------------------- the status aggregator
\* mirrors.utils is not part of this file. show_all=False keeps the URLs
\* that are active and whose mirror is public and active; mirror_id keeps
\* the URLs of that mirror; only URLs with a recent check log are returned.
Shown(u, show_all) ==
    show_all \/ (url_db[u].active /\ PublicActive(url_db[u].mirror_id))

\* the six derived fields the aggregator sets on a checked URL
Annotated(u) ==
    IF url_db[u].log = "ok"
    THEN [id |-> u, url |-> UrlString(u),
          last_sync |-> Some(u), completion_pct |-> Some(1),
          delay |-> Some(u), duration_avg |-> Some(1),
          duration_stddev |-> Some(0), score |-> Some(u + 1)]
    ELSE [id |-> u, url |-> UrlString(u),
          last_sync |-> None, completion_pct |-> Some(0),
          delay |-> None, duration_avg |-> None,
          duration_stddev |-> None, score |-> None]

\* get_mirror_statuses(mirror_id=..., show_all=...)['urls']
get_mirror_statuses(mirror_id, show_all) ==
    LET s == SetToSeq({u \in UrlIds : /\ url_db[u].log # "none"
                                     /\ url_db[u].mirror_id = mirror_id
                                     /\ Shown(u, show_all)})
    IN [i \in DOMAIN s |-> Annotated(s[i])]

\* get_mirror_errors(mirror_id=..., cutoff=..., show_all=...): one entry per
\* URL with a failed check
get_mirror_errors(mirror_id, show_all) ==
    {[url |-> u] : u \in {v \in UrlIds : /\ url_db[v].log = "error"
                                         /\ url_db[v].mirror_id = mirror_id
                                         /\ Shown(v, show_all)}}

\* --------------------------------------------------- mirror_details' body
\* {url for url in status_info['urls'] if url.mirror_id == mirror.id}
CheckedUrls(status_urls_of, m) ==
    {status_urls_of[i] : i \in {j \in DOMAIN status_urls_of :
                                  url_db[status_urls_of[j].id].mirror_id = m}}

\* (mutant: the checked URLs are not taken out)
OtherUrlsNoDifference(all_urls, checked_urls) == all_urls

\* all_urls.difference(checked_urls): model instances are equal when their
\* primary keys are
OtherUrls(all_urls, checked_urls) ==
    {x \in all_urls : \A c \in checked_urls : c.id # x.id}

\* setattr(url, attr, None) for the six derived attributes
Padded(x) ==
    [id |-> x.id, url |-> x.url,
     last_sync |-> None, completion_pct |-> None, delay |-> None,
     duration_avg |-> None, duration_stddev |-> None, score |-> None]

\* the show_all argument of the get_mirror_errors call of mirror_details
ErrorsShowAll(authorized) == TRUE

\* (mutant: the padding loop runs over every URL, checked ones included)
DetailUrlsPadAll(checked_urls, other_urls) ==
    LET s == SetToSeq({Padded(x) : x \in checked_urls \cup other_urls})
    IN Sorted(s, [i \in DOMAIN s |-> <<s[i].url>>])

\* sorted(checked_urls.union(other_urls), key=attrgetter('url'))
DetailUrls(checked_urls, other_urls) ==
    LET s == SetToSeq(checked_urls \cup {Padded(x) : x \in other_urls})
    IN Sorted(s, [i \in DOMAIN s |-> <<s[i].url>>])

\* ------------------------------------------------------------ the views
\* These views keep nothing between requests and write nothing: a behaviour
\* is one request (resp = Idle before it) against one state of the database.
DbFrame == UNCHANGED <<mirror_db, url_db, status_urls, check_times, cache, td>>

mirrors(authenticated) ==
    LET req == [view |-> "mirrors", authenticated |-> authenticated]
        mirror_list == MirrorList(authenticated)
        protos == GroupDict(ProtoPairs(authenticated))
        countries == GroupDict(CountryPairs(authenticated))
    IN /\ resp = Idle
       /\ resp' = Rendered(req, << >>,
                    [mirror_list |->
                       [i \in DOMAIN mirror_list |->
                          ListItem(mirror_list[i], protos, countries)]])
       /\ DbFrame

mirror_details(authorized, name) ==
    LET req == [view |-> "mirror_details", authenticated |-> authorized,
                name |-> name]
        mirror == MirrorByName(name)
    IN /\ resp = Idle
       /\ resp' =
            IF IsNone(mirror) THEN Http404(req)
            ELSE IF MirrorHidden(authorized, Val(mirror)) THEN Http404(req)
            ELSE LET m == Val(mirror)
                     status_info == get_mirror_statuses(m, authorized)
                     checked_urls == CheckedUrls(status_info, m)
                     all_urls == MirrorUrls(authorized, m)
                     other_urls == OtherUrls(all_urls, checked_urls)
                     error_logs ==
                         get_mirror_errors(m, ErrorsShowAll(authorized))
                 IN Rendered(req,
                        <<"get_mirror_statuses", "get_mirror_errors">>,
                        [mirror |-> m,
                         urls |-> DetailUrls(checked_urls, other_urls),
                         checked |-> status_info,
                         error_logs |-> error_logs])
       /\ DbFrame

\* list(obj.logs.filter(check_time__gte=cutoff).order_by('check_time')): the
\* recent check logs of one URL, oldest first
UrlLogs(u) ==
    IF url_db[u].log = "none" THEN << >> ELSE <<url_db[u].log>>

\* ExtendedMirrorStatusJSONEncoder.default on a MirrorUrl: the attributes of
\* the parent encoder, and the URL's recent logs under 'logs'
ExtendedDefault(obj) ==
    [f \in DOMAIN obj \cup {"logs"} |->
        IF f = "logs" THEN UrlLogs(obj.id) ELSE obj[f]]

\* json.dumps(data, cls=ExtendedMirrorStatusJSONEncoder): every URL of the
\* payload goes through the encoder, in order, one log query each
JsonDumps(data) ==
    [calls |-> [i \in DOMAIN data.urls |-> "log_query"],
     data |-> [urls |-> [i \in DOMAIN data.urls |->
                            ExtendedDefault(data.urls[i])],
               version |-> data.version]]

mirror_details_json(authorized, name) ==
    LET req == [view |-> "mirror_details_json", authenticated |-> authorized,
                name |-> name]
        mirror == MirrorByName(name)
    IN /\ resp = Idle
       /\ resp' =
            IF IsNone(mirror) THEN Http404(req)
            ELSE IF MirrorHidden(authorized, Val(mirror)) THEN Http404(req)
            ELSE LET status_info ==
                         [urls |-> get_mirror_statuses(Val(mirror), authorized),
                          version |-> 3]
                     response == JsonDumps(status_info)
                 IN Rendered(req,
                        <<"get_mirror_statuses">> \o response.calls,
                        response.data)
       /\ DbFrame

url_details(authorized, name, url_id) ==
    LET req == [view |-> "url_details", authenticated |-> authorized,
                name |-> name, url_id |-> url_id]
        url == UrlByIdAndName(url_id, name)
    IN /\ resp = Idle
       /\ resp' =
            IF IsNone(url) THEN Http404(req)
            ELSE IF UrlHidden(authorized, Val(url)) THEN Http404(req)
            ELSE Rendered(req, <<"log_query">>,
                    [url |-> Val(url),
                     logs |-> IF url_db[Val(url)].log = "none"
                              THEN {} ELSE {url_db[Val(url)].log}])
       /\ DbFrame

\* --------------------------------------------------------- specification
MirrorRows == [public : BOOLEAN, active : BOOLEAN]
LogStates == {"none", "ok", "error"}

\* The detail views over every setting of the visibility flags and of the
\* check logs; each URL's mirror and country come from the tables.
Init ==
    /\ mirror_db \in [MirrorIds -> MirrorRows]
    /\ \E active \in [UrlIds -> BOOLEAN], log \in [UrlIds -> LogStates] :
          url_db = [u \in UrlIds |->
                      [mirror_id |-> UrlMirror(u), country |-> UrlCountry(u),
                       active |-> active[u], log |-> log[u]]]
    /\ status_urls = << >>
    /\ check_times = {}
    /\ cache = << >>
    /\ td = None
    /\ resp = Idle

Next ==
    \/ \E a \in BOOLEAN : mirrors(a)
    \/ \E a \in BOOLEAN, n \in Names : mirror_details(a, n)
    \/ \E a \in BOOLEAN, n \in Names : mirror_details_json(a, n)
    \/ \E a \in BOOLEAN, n \in Names, u \in UrlIdArgs : url_details(a, n, u)

Spec == Init /\ [][Next]_vars

\* The list view over every assignment of URLs to mirrors.
InitList ==
    /\ mirror_db \in [MirrorIds -> MirrorRows]
    /\ \E mirror_id \in [UrlIds -> MirrorIds], active \in [UrlIds -> BOOLEAN] :
          url_db = [u \in UrlIds |->
                      [mirror_id |-> mirror_id[u], country |-> UrlCountry(u),
                       active |-> active[u], log |-> "none"]]
    /\ status_urls = << >>
    /\ check_times = {}
    /\ cache = << >>
    /\ td = None
    /\ resp = Idle

NextList == \E a \in BOOLEAN : mirrors(a)

SpecList == InitList /\ [][NextList]_vars

\* ============================================================ timedelta
\* datetime.timedelta(days, seconds, microseconds) in its normalized form:
\* 0 <= seconds < 24 * 3600, 0 <= microseconds < 1000000, days of any sign
timedelta(days, seconds, microseconds) ==
    LET s == seconds + (microseconds \div 1000000)
    IN [days |-> days + (s \div (24 * 3600)),
        seconds |-> s % (24 * 3600),
        microseconds |-> microseconds % 1000000]

\* timedeltas compare as (days, seconds, microseconds)
TdKey(d) == <<d.days, d.seconds, d.microseconds>>
TdGreater(a, b) == KeyLess(TdKey(b), TdKey(a))

\* timedelta.max
timedelta_max ==
    [days |-> 999999999, seconds |-> 24 * 3600 - 1, microseconds |-> 999999]

\* ========================================================= status views
\* Mirror.TIER_CHOICES is not part of this file; 2 is not a configured tier
TierChoices == {0, 1}
\* the tier argument: absent, or the digits of the URL
TierArgs == {None, Some(0), Some(1), Some(2)}

\* (mutant: the tier is compared as the string of the URL, never found)
TierUnknownNoInt(tier) == ~IsNone(tier)

\* tier is not None and int(tier) not in [t[0] for t in Mirror.TIER_CHOICES]
TierUnknown(tier) == ~IsNone(tier) /\ Val(tier) \notin TierChoices

\* bad_timedelta = timedelta(days=3)
bad_timedelta == timedelta(3, 0, 0)

\* not url.delay: None and timedelta(0) are both false in Python
Falsy(delay) == IsNone(delay) \/ Val(delay) = timedelta(0, 0, 0)

\* tier is not None and url.mirror.tier != tier: continue
InTier(url, tier) == IsNone(tier) \/ url.tier = Val(tier)

\* url.completion_pct is None: continue
IsChecked(url) == ~IsNone(url.completion_pct)

\* not url.delay or url.delay > bad_timedelta
IsBadUrl(url) == Falsy(url.delay) \/ TdGreater(Val(url.delay), bad_timedelta)

\* the loop of status(): the lists in the aggregator's order
good_urls(urls, tier) ==
    SelectSeq(urls, LAMBDA url : InTier(url, tier) /\ IsChecked(url)
                                 /\ ~IsBadUrl(url))
bad_urls(urls, tier) ==
    SelectSeq(urls, LAMBDA url : InTier(url, tier) /\ IsChecked(url)
                                 /\ IsBadUrl(url))

\* key=attrgetter('score')
GoodKey(url) == <<Val(url.score)>>
\* key=lambda u: u.delay or timedelta.max
BadKey(url) ==
    IF Falsy(url.delay) THEN TdKey(timedelta_max) ELSE TdKey(Val(url.delay))

SortedGood(urls) == Sorted(urls, [i \in DOMAIN urls |-> GoodKey(urls[i])])
SortedBad(urls) == Sorted(urls, [i \in DOMAIN urls |-> BadKey(urls[i])])

\* get_mirror_errors(): an entry for each URL that has checks but no sync seen
StatusErrors(urls) ==
    SelectSeq([i \in DOMAIN urls |-> [url |-> urls[i]]],
              LAMBDA log : IsChecked(log.url) /\ IsNone(log.url.delay))

\* [log for log in error_logs if log['url'].mirror.tier == tier]
TierErrors(error_logs, tier) ==
    IF IsNone(tier) THEN error_logs
    ELSE SelectSeq(error_logs, LAMBDA log : log.url.tier = Val(tier))

\* the body of status()
StatusBody(req) ==
    IF TierUnknown(req.tier) THEN Http404(req)
    ELSE Rendered(req, <<"get_mirror_statuses", "get_mirror_errors">>,
            [urls |-> status_urls,
             good_urls |-> SortedGood(good_urls(status_urls, req.tier)),
             bad_urls |-> SortedBad(bad_urls(status_urls, req.tier)),
             error_logs |-> TierErrors(StatusErrors(status_urls), req.tier),
             tier |-> req.tier])

\* the body of status_json()
StatusJsonBody(req) ==
    IF TierUnknown(req.tier) THEN Http404(req)
    ELSE Rendered(req, <<"get_mirror_statuses">>,
            [urls |-> SelectSeq(status_urls,
                                LAMBDA url : InTier(url, req.tier)),
             version |-> 3])

\* ------------------------------------------------------- conditional GET
\* A check_time is <<whole seconds, microseconds>>; HTTP dates are whole
\* seconds.
MicroValues == {0, 500000}
CheckTimes == (1..MaxSec) \X MicroValues
ImsArgs == {None} \cup {Some(sec) : sec \in 1..MaxSec}

MaxTime(S) == CHOOSE t \in S : \A o \in S : ~KeyLess(t, o)

\* SELECT MAX(check_time) FROM mirrors_mirrorlog
status_last_modified ==
    IF check_times = {} THEN None ELSE Some(MaxTime(check_times))

\* timegm(dt.utctimetuple()): the microseconds are dropped
timegm(dt) == dt[1]

ResLastModified ==
    IF IsNone(status_last_modified) THEN None
    ELSE Some(timegm(Val(status_last_modified)))

\* (mutant: a copy exactly as old as the last check counts as outdated)
PrecheckFreshStrict(if_modified_since) ==
    /\ ~IsNone(ResLastModified)
    /\ ~IsNone(if_modified_since)
    /\ Val(ResLastModified) < Val(if_modified_since)

\* res_last_modified and if_modified_since and
\* res_last_modified <= if_modified_since
PrecheckFresh(if_modified_since) ==
    /\ ~IsNone(ResLastModified)
    /\ ~IsNone(if_modified_since)
    /\ Val(ResLastModified) <= Val(if_modified_since)

\* @condition(last_modified_func=status_last_modified): the precheck
\* answers before the view runs; a response the view returns gets the
\* Last-Modified header, an Http404 it raises passes through without one.
condition(req, body) ==
    IF PrecheckFresh(req.ims)
    THEN [view |-> req.view, req |-> req, outcome |-> "not_modified",
          calls |-> << >>, data |-> None, last_modified |-> ResLastModified]
    ELSE [view |-> req.view, req |-> req, outcome |-> body.outcome,
          calls |-> body.calls, data |-> body.data,
          last_modified |-> IF body.outcome = "ok"
                            THEN ResLastModified ELSE None]

\* Whether this request carries the Last-Modified value of the previous
\* response while a log newer than all that response saw has been inserted.
Stale(if_modified_since) ==
    /\ resp.view \in {"status", "status_json"}
    /\ ~IsNone(resp.last_modified)
    /\ if_modified_since = resp.last_modified
    /\ ~IsNone(resp.max_then)
    /\ KeyLess(Val(resp.max_then), Val(status_last_modified))

\* the response as sent, with the bookkeeping the properties read
Sent(r, from_cache, stale) ==
    [view |-> r.view, req |-> r.req, outcome |-> r.outcome,
     calls |-> r.calls, data |-> r.data, last_modified |-> r.last_modified,
     from_cache |-> from_cache, stale |-> stale,
     max_then |-> status_last_modified]

\* @cache_page(67): a stored response answers the request before the
\* precheck and the view run; only a 200 response is stored, under the URL.
CacheKeys == {tier \in TierArgs : ~TierUnknown(tier)}
cache_page(req, inner) ==
    IF req.tier \in CacheKeys /\ ~IsNone(cache[req.tier])
    THEN [view |-> req.view, req |-> req, outcome |-> "ok", calls |-> << >>,
          data |-> Val(cache[req.tier]).data,
          last_modified |-> Val(cache[req.tier]).last_modified]
    ELSE inner
CacheUpdate(req, r) ==
    IF req.tier \in CacheKeys /\ IsNone(cache[req.tier]) /\ r.outcome = "ok"
    THEN [cache EXCEPT ![req.tier] =
            Some([data |-> r.data, last_modified |-> r.last_modified])]
    ELSE cache

StatusFrame == UNCHANGED <<mirror_db, url_db, status_urls, check_times, td>>

status(tier, if_modified_since) ==
    LET req == [view |-> "status", tier |-> tier, ims |-> if_modified_since]
    IN /\ resp' = Sent(condition(req, StatusBody(req)), FALSE,
                       Stale(if_modified_since))
       /\ UNCHANGED cache
       /\ StatusFrame

status_json(tier, if_modified_since) ==
    LET req == [view |-> "status_json", tier |-> tier,
                ims |-> if_modified_since]
        r == cache_page(req, condition(req, StatusJsonBody(req)))
    IN /\ resp' = Sent(r, req.tier \in CacheKeys /\ ~IsNone(cache[req.tier]),
                       Stale(if_modified_since))
       /\ cache' = CacheUpdate(req, r)
       /\ StatusFrame

\* a mirror check stores a MirrorLog row
InsertLog(check_time) ==
    /\ check_time \notin check_times
    /\ check_times' = check_times \cup {check_time}
    /\ UNCHANGED <<mirror_db, url_db, status_urls, cache, td, resp>>

\* the 67 seconds of a stored response are over
CacheExpire(tier) ==
    /\ tier \in CacheKeys
    /\ ~IsNone(cache[tier])
    /\ cache' = [cache EXCEPT ![tier] = None]
    /\ UNCHANGED <<mirror_db, url_db, status_urls, check_times, td, resp>>

\* ------------------------------------------------- status specifications
\* What get_mirror_statuses() may return for a URL: never checked, or
\* checked with a delay and a score.
Delays == {None, Some(timedelta(0, 0, 0)), Some(timedelta(3, 0, 0)),
           Some(timedelta(3, 0, 1))}
StatusRows ==
    {[tier |-> 0, completion_pct |-> None, delay |-> None, score |-> None]}
    \cup [tier : TierChoices, completion_pct : {Some(1)}, delay : Delays,
          score : {Some(1), Some(2)}]
WithIds(rows) ==
    [i \in DOMAIN rows |->
        [id |-> i, tier |-> rows[i].tier,
         completion_pct |-> rows[i].completion_pct,
         delay |-> rows[i].delay, score |-> rows[i].score]]

\* The status page over every aggregator result, with no check log stored.
InitStatus ==
    /\ mirror_db = << >>
    /\ url_db = << >>
    /\ \E n \in 0..MaxStatusUrls : \E rows \in [1..n -> StatusRows] :
          status_urls = WithIds(rows)
    /\ check_times = {}
    /\ cache = [tier \in CacheKeys |-> None]
    /\ td = None
    /\ resp = Idle

NextStatus == \E tier \in TierArgs : status(tier, None)

SpecStatus == InitStatus /\ [][NextStatus]_vars

\* Conditional GET and the page cache over requests and log insertions,
\* with one aggregator result.
CondUrls ==
    WithIds(<<[tier |-> 0, completion_pct |-> Some(1),
               delay |-> Some(timedelta(0, 5, 0)), score |-> Some(1)],
              [tier |-> 1, completion_pct |-> Some(1),
               delay |-> None, score |-> Some(2)]>>)
\* the tiers requested: none, a configured one and one that is not; the
\* JSON feed, whose responses are also stored per URL, with a tier only
CondTierArgs == {None, Some(1), Some(2)}
JsonTierArgs == {Some(1), Some(2)}

InitCond ==
    /\ mirror_db = << >>
    /\ url_db = << >>
    /\ status_urls = CondUrls
    /\ check_times = {}
    /\ cache = [tier \in CacheKeys |-> None]
    /\ td = None
    /\ resp = Idle

NextCond ==
    \/ \E tier \in CondTierArgs, ims \in ImsArgs : status(tier, ims)
    \/ \E tier \in JsonTierArgs, ims \in ImsArgs : status_json(tier, ims)
    \/ \E t \in CheckTimes : InsertLog(t)
    \/ \E tier \in JsonTierArgs : CacheExpire(tier)

SpecCond == InitCond /\ [][NextCond]_vars

\* ============================================================== encoder
\* (mutant: timedelta.seconds taken for the whole duration)
defaultSecondsOnly(obj) == obj.seconds

\* MirrorStatusJSONEncoder.default on a timedelta
default(obj) == obj.days * 24 * 3600 + obj.seconds

\* the durations handed to the encoder, as constructor arguments
TimedeltaArgs ==
    [days : (0 - MaxDays)..MaxDays,
     seconds : {-1, 0, 5, 24 * 3600 - 1},
     microseconds : {-500000, -1, 0, 1, 999999}]

EncFrame == UNCHANGED <<mirror_db, url_db, status_urls, check_times, cache, resp>>

Encode ==
    /\ ~IsNone(td)
    /\ IsNone(Val(td).json)
    /\ td' = Some([args |-> Val(td).args, obj |-> Val(td).obj,
                   json |-> Some(default(Val(td).obj))])
    /\ EncFrame

InitEnc ==
    /\ mirror_db = << >>
    /\ url_db = << >>
    /\ status_urls = << >>
    /\ check_times = {}
    /\ cache = << >>
    /\ \E a \in TimedeltaArgs :
          td = Some([args |-> a,
                     obj |-> timedelta(a.days, a.seconds, a.microseconds),
                     json |-> None])
    /\ resp = Idle

NextEnc == Encode

SpecEnc == InitEnc /\ [][NextEnc]_vars

\* ================================================================ claims
\* the same Not-Found whatever the reason: nothing called, nothing handed out
IsHttp404(r) == r.outcome = "not_found" /\ r.calls = << >> /\ r.data = None
DerivedAllNone(e) ==
    /\ e.last_sync = None /\ e.completion_pct = None /\ e.delay = None
    /\ e.duration_avg = None /\ e.duration_stddev = None /\ e.score = None
IdsOf(seq) == {seq[i].id : i \in DOMAIN seq}

\* C1: an unauthenticated request for a non-public or inactive mirror (for
\* url_details also an inactive URL) ends in the very Not-Found a request
\* for a nonexistent mirror or URL gets, with no aggregator call or log
\* query made; the only outcomes are success and Not-Found; an
\* authenticated request for an existing mirror or URL never ends Not-Found.
C1_HiddenIsNotFound ==
    resp.view \in {"mirror_details", "mirror_details_json", "url_details"} =>
        LET r == resp.req
            is_url == resp.view = "url_details"
            exists ==
                IF is_url
                THEN r.url_id \in UrlIds /\ url_db[r.url_id].mirror_id = r.name
                ELSE r.name \in MirrorIds
            hidden ==
                \/ ~mirror_db[r.name].public
                \/ ~mirror_db[r.name].active
                \/ (is_url /\ ~url_db[r.url_id].active)
        IN /\ resp.outcome \in {"ok", "not_found"}
           /\ ~exists => IsHttp404(resp)
           /\ (exists /\ ~r.authenticated /\ hidden) => IsHttp404(resp)
           /\ (exists /\ r.authenticated) => resp.outcome = "ok"

\* C1 witness: an unauthenticated url_details request for an inactive URL
\* of a public, active mirror has been answered Not-Found.
C1_Witness ==
    /\ resp.view = "url_details"
    /\ ~resp.req.authenticated
    /\ resp.req.url_id \in UrlIds
    /\ url_db[resp.req.url_id].mirror_id = resp.req.name
    /\ mirror_db[resp.req.name].public /\ mirror_db[resp.req.name].active
    /\ ~url_db[resp.req.url_id].active
    /\ resp.outcome = "not_found"

\* C2: what a successful unauthenticated request hands out concerns only
\* public, active mirrors and their active URLs: the listed mirrors and the
\* protocols and countries counted for them, and the 'urls' and
\* 'error_logs' of the mirror detail view; an authenticated request has no
\* mirror and no URL filtered out.
C2_UnauthenticatedSeesOnlyPublicActive ==
    /\ (resp.view = "mirrors" /\ resp.outcome = "ok") =>
          LET list == Val(resp.data).mirror_list
              urls_of(m) ==
                  {u \in UrlIds : /\ url_db[u].mirror_id = m
                                  /\ (resp.req.authenticated \/ url_db[u].active)}
          IN /\ ~resp.req.authenticated =>
                   \A i \in DOMAIN list :
                       mirror_db[list[i].id].public /\ mirror_db[list[i].id].active
             /\ resp.req.authenticated => IdsOf(list) = MirrorIds
             /\ \A i \in DOMAIN list :
                   /\ {list[i].protocols[j] : j \in DOMAIN list[i].protocols}
                        = {UrlProtocol(u) : u \in urls_of(list[i].id)}
                   /\ ~IsNone(list[i].country) =>
                        \E u \in urls_of(list[i].id) :
                            url_db[u].country = Val(list[i].country)
    /\ (resp.view = "mirror_details" /\ resp.outcome = "ok") =>
          LET d == Val(resp.data)
              m == resp.req.name
          IN /\ ~resp.req.authenticated =>
                   /\ mirror_db[m].public /\ mirror_db[m].active
                   /\ \A u \in IdsOf(d.urls) :
                         url_db[u].mirror_id = m /\ url_db[u].active
                   /\ \A e \in d.error_logs :
                         url_db[e.url].mirror_id = m /\ url_db[e.url].active
             /\ resp.req.authenticated =>
                   /\ IdsOf(d.urls) = {u \in UrlIds : url_db[u].mirror_id = m}
                   /\ {e.url : e \in d.error_logs} =
                        {u \in UrlIds : /\ url_db[u].mirror_id = m
                                        /\ url_db[u].log = "error"}

\* C9: the 'urls' of the mirror detail view are, by identity, exactly the
\* mirror's URLs the requester may see (all for an authenticated requester,
\* the active ones otherwise), each once, in ascending order of URL string.
C9_UrlsAreTheVisibleUrls ==
    (resp.view = "mirror_details" /\ resp.outcome = "ok") =>
        LET urls == Val(resp.data).urls
            m == resp.req.name
        IN /\ IdsOf(urls) =
                {u \in UrlIds : /\ url_db[u].mirror_id = m
                                /\ (resp.req.authenticated \/ url_db[u].active)}
           /\ Cardinality(IdsOf(urls)) = Len(urls)
           /\ \A i, j \in DOMAIN urls : i < j => urls[i].url <= urls[j].url
           /\ \A i \in DOMAIN urls : urls[i].url = UrlString(urls[i].id)

\* C9 witness: an unauthenticated detail page that shows a checked URL of a
\* mirror which also has an inactive URL with check logs, while another
\* mirror has a checked URL too.
C9_Witness ==
    /\ resp.view = "mirror_details" /\ resp.outcome = "ok"
    /\ ~resp.req.authenticated
    /\ Len(Val(resp.data).urls) >= 1
    /\ Len(Val(resp.data).checked) >= 1
    /\ \E u \in UrlIds : /\ url_db[u].mirror_id = resp.req.name
                         /\ ~url_db[u].active
                         /\ url_db[u].log # "none"
    /\ \E u \in UrlIds : /\ url_db[u].mirror_id # resp.req.name
                         /\ url_db[u].log # "none"

\* C10: in the mirror detail view a URL that is absent from the
\* aggregator's checked set is output with its six derived fields null, and
\* a URL in the checked set is output with exactly the values the
\* aggregator gave it.
C10_PaddingOnlyForUnchecked ==
    (resp.view = "mirror_details" /\ resp.outcome = "ok") =>
        LET d == Val(resp.data)
            given == {d.checked[i] : i \in DOMAIN d.checked}
            m == resp.req.name
        IN /\ \A i \in DOMAIN d.urls :
                 IF d.urls[i].id \in IdsOf(d.checked)
                 THEN d.urls[i] \in given
                 ELSE DerivedAllNone(d.urls[i])
           /\ \A c \in given : \E i \in DOMAIN d.urls : d.urls[i] = c
           /\ \A u \in UrlIds :
                 (/\ url_db[u].mirror_id = m
                  /\ (resp.req.authenticated \/ url_db[u].active)
                  /\ u \notin IdsOf(d.checked)) =>
                     \E i \in DOMAIN d.urls :
                         d.urls[i].id = u /\ DerivedAllNone(d.urls[i])

\* C10 witness: a detail page that shows a checked URL with a score next to
\* an unchecked URL.
C10_Witness ==
    /\ resp.view = "mirror_details" /\ resp.outcome = "ok"
    /\ \E i, j \in DOMAIN Val(resp.data).urls :
          /\ ~IsNone(Val(resp.data).urls[i].score)
          /\ Val(resp.data).urls[i].id \in IdsOf(Val(resp.data).checked)
          /\ Val(resp.data).urls[j].id \notin IdsOf(Val(resp.data).checked)

\* C7: in the mirror list every listed mirror's country is the one distinct
\* country of its URLs (all of them for an authenticated requester, the
\* active ones otherwise) when there is exactly one, and null when there is
\* none or more than one; its protocols are the distinct protocols of those
\* URLs, each once.
C7_CountryAndProtocols ==
    (resp.view = "mirrors" /\ resp.outcome = "ok") =>
        LET list == Val(resp.data).mirror_list
            urls_of(m) ==
                {u \in UrlIds : /\ url_db[u].mirror_id = m
                                /\ (resp.req.authenticated \/ url_db[u].active)}
            countries_of(m) == {url_db[u].country : u \in urls_of(m)}
            protocols_of(m) == {UrlProtocol(u) : u \in urls_of(m)}
        IN \A i \in DOMAIN list :
              LET it == list[i] IN
              /\ IF Cardinality(countries_of(it.id)) = 1
                 THEN it.country = Some(CHOOSE c \in countries_of(it.id) : TRUE)
                 ELSE it.country = None
              /\ {it.protocols[j] : j \in DOMAIN it.protocols}
                    = protocols_of(it.id)
              /\ Len(it.protocols) = Cardinality(protocols_of(it.id))

\* C7 witness: an unauthenticated list in which a mirror has two active
\* URLs of one country and an inactive URL of another, and is given that
\* country, next to a mirror with no URL and no country.
C7_Witness ==
    /\ resp.view = "mirrors" /\ resp.outcome = "ok"
    /\ ~resp.req.authenticated
    /\ \E i, k \in DOMAIN Val(resp.data).mirror_list :
          LET it == Val(resp.data).mirror_list[i]
              other == Val(resp.data).mirror_list[k]
          IN /\ Cardinality({u \in UrlIds : /\ url_db[u].mirror_id = it.id
                                            /\ url_db[u].active}) = 2
             /\ \E u \in UrlIds : /\ url_db[u].mirror_id = it.id
                                  /\ ~url_db[u].active
                                  /\ Some(url_db[u].country) # it.country
             /\ ~IsNone(it.country)
             /\ other.protocols = << >> /\ IsNone(other.country)

CallCount(r, name) == Cardinality({i \in DOMAIN r.calls : r.calls[i] = name})
IsStatusView == resp.view \in {"status", "status_json"}

\* C3 as claimed: a status or status_json request with a tier that is not
\* configured ends Not-Found whatever If-Modified-Since it carries and
\* whatever the maximum check_time is, with get_mirror_statuses not called;
\* a request with no tier or a configured tier never ends Not-Found.
C3_UnknownTierAlwaysNotFound ==
    IsStatusView =>
        IF ~IsNone(resp.req.tier) /\ Val(resp.req.tier) \notin TierChoices
        THEN /\ resp.outcome = "not_found"
             /\ CallCount(resp, "get_mirror_statuses") = 0
        ELSE resp.outcome # "not_found"

\* C3 as amended: such a request never has get_mirror_statuses called and
\* ends Not-Found, except that it ends not-modified when the precheck
\* short-circuits (logs exist and If-Modified-Since is not before the
\* maximum check_time in whole seconds); a request with no tier or a
\* configured tier never ends Not-Found.
C3_UnknownTierNotFoundAfterPrecheck ==
    IsStatusView =>
        IF ~IsNone(resp.req.tier) /\ Val(resp.req.tier) \notin TierChoices
        THEN /\ CallCount(resp, "get_mirror_statuses") = 0
             /\ IF /\ ~IsNone(resp.req.ims)
                   /\ ~IsNone(resp.max_then)
                   /\ Val(resp.max_then)[1] <= Val(resp.req.ims)
                THEN resp.outcome = "not_modified"
                ELSE resp.outcome = "not_found"
        ELSE resp.outcome # "not_found"

\* C3 witness: a request for the unconfigured tier 2 that carried an
\* If-Modified-Since older than the stored logs has ended Not-Found.
C3_Witness ==
    /\ IsStatusView
    /\ resp.req.tier = Some(2)
    /\ ~IsNone(resp.req.ims)
    /\ ~IsNone(resp.max_then)
    /\ Val(resp.req.ims) < Val(resp.max_then)[1]
    /\ resp.outcome = "not_found"

\* C4 as claimed: if If-Modified-Since is not older than the maximum
\* check_time the response is not-modified and no aggregator is called;
\* otherwise the aggregation runs exactly once; and a request that carries
\* the earlier Last-Modified value after a log with a newer check_time was
\* inserted is never answered not-modified.
C4_PrecheckOrOneAggregation ==
    IsStatusView =>
        LET not_older ==
                /\ ~IsNone(resp.req.ims)
                /\ ~IsNone(resp.max_then)
                /\ ~KeyLess(<<Val(resp.req.ims), 0>>, Val(resp.max_then))
        IN /\ not_older => (resp.outcome = "not_modified" /\ resp.calls = << >>)
           /\ ~not_older => CallCount(resp, "get_mirror_statuses") = 1
           /\ resp.stale => resp.outcome # "not_modified"

\* C4 as amended: for a request the page cache does not answer, the
\* precheck compares in whole seconds: if logs exist and If-Modified-Since
\* is not before the maximum check_time cut to whole seconds, the response
\* is not-modified and no aggregator is called; otherwise the view runs,
\* which for an unconfigured tier ends Not-Found with no aggregator called
\* and else calls get_mirror_statuses exactly once (and, in status,
\* get_mirror_errors exactly once). A request carrying the earlier
\* Last-Modified value after a newer log was inserted is answered
\* not-modified only if the newer check_time lies in the very second of
\* that Last-Modified value. A request the page cache answers gets the
\* stored response and nothing is called.
C4_PrecheckInWholeSeconds ==
    IsStatusView =>
        LET fresh ==
                /\ ~IsNone(resp.req.ims)
                /\ ~IsNone(resp.max_then)
                /\ Val(resp.max_then)[1] <= Val(resp.req.ims)
            unknown ==
                ~IsNone(resp.req.tier) /\ Val(resp.req.tier) \notin TierChoices
        IN /\ (~resp.from_cache /\ fresh) =>
                 (resp.outcome = "not_modified" /\ resp.calls = << >>)
           /\ (~resp.from_cache /\ ~fresh /\ unknown) =>
                 (resp.outcome = "not_found" /\ resp.calls = << >>)
           /\ (~resp.from_cache /\ ~fresh /\ ~unknown) =>
                 /\ resp.outcome = "ok"
                 /\ resp.calls = IF resp.view = "status"
                                 THEN <<"get_mirror_statuses", "get_mirror_errors">>
                                 ELSE <<"get_mirror_statuses">>
           /\ (resp.stale /\ resp.outcome = "not_modified") =>
                 Val(resp.max_then)[1] = Val(resp.req.ims)
           /\ resp.from_cache =>
                 (resp.view = "status_json" /\ resp.outcome = "ok"
                  /\ resp.calls = << >>)

\* C4 witness: a request that carried the earlier Last-Modified value after
\* a newer log was inserted went through the precheck and was aggregated.
C4_Witness ==
    /\ IsStatusView
    /\ resp.stale
    /\ ~resp.from_cache
    /\ resp.outcome = "ok"
    /\ CallCount(resp, "get_mirror_statuses") = 1

\* C5: in the status view, of the aggregator's URLs (of the requested tier
\* when one is given) a URL with a null completion_pct is in neither list
\* and every other one is in exactly one: in bad_urls if and only if its
\* delay is null or exceeds 3 days, else in good_urls (a delay of zero and
\* a delay of exactly 3 days included); URLs of another tier are in neither
\* list, and no URL is in a list twice.
C5_GoodBadPartition ==
    (resp.view = "status" /\ resp.outcome = "ok") =>
        LET d == Val(resp.data)
            tier == resp.req.tier
            times(list, u) == Cardinality({i \in DOMAIN list : list[i] = u})
            three_days == [days |-> 3, seconds |-> 0, microseconds |-> 0]
        IN \A k \in DOMAIN d.urls :
              LET u == d.urls[k] IN
              IF (~IsNone(tier) /\ u.tier # Val(tier)) \/ IsNone(u.completion_pct)
              THEN times(d.good_urls, u) = 0 /\ times(d.bad_urls, u) = 0
              ELSE IF IsNone(u.delay) \/ TdGreater(Val(u.delay), three_days)
              THEN times(d.good_urls, u) = 0 /\ times(d.bad_urls, u) = 1
              ELSE times(d.good_urls, u) = 1 /\ times(d.bad_urls, u) = 0

\* C8: good_urls is in ascending order of score and bad_urls in ascending
\* order of delay with a null delay as the greatest (every bad URL with a
\* known delay before every bad URL with none); each is a permutation of
\* the partition it was sorted from, and URLs with equal keys keep the
\* aggregator's order.
C8_SortedLists ==
    (resp.view = "status" /\ resp.outcome = "ok") =>
        LET d == Val(resp.data)
            good == d.good_urls
            bad == d.bad_urls
            members(list) == {list[i] : i \in DOMAIN list}
            delay_key(u) ==
                IF IsNone(u.delay) THEN TdKey(timedelta_max)
                ELSE TdKey(Val(u.delay))
        IN /\ \A i, j \in DOMAIN good :
                 i < j => /\ Val(good[i].score) <= Val(good[j].score)
                          /\ (good[i].score = good[j].score
                                => good[i].id < good[j].id)
           /\ \A i, j \in DOMAIN bad :
                 i < j => /\ ~KeyLess(delay_key(bad[j]), delay_key(bad[i]))
                          /\ (IsNone(bad[i].delay) => IsNone(bad[j].delay))
                          /\ (delay_key(bad[i]) = delay_key(bad[j])
                                => bad[i].id < bad[j].id)
           /\ members(good) = members(good_urls(d.urls, resp.req.tier))
           /\ members(bad) = members(bad_urls(d.urls, resp.req.tier))
           /\ Len(good) = Len(good_urls(d.urls, resp.req.tier))
           /\ Len(bad) = Len(bad_urls(d.urls, resp.req.tier))

\* C6: the encoder turns a duration d into the integer r of whole seconds
\* with r <= d < r + 1 second (a negative duration with a fraction goes
\* toward minus infinity); 1 day 5 seconds gives 86405 and zero gives 0.
C6_WholeSecondsFloor ==
    (~IsNone(td) /\ ~IsNone(Val(td).json)) =>
        LET r == Val(Val(td).json)
            d == Val(td).obj
        IN /\ ~KeyLess(TdKey(d), TdKey(timedelta(0, r, 0)))
           /\ KeyLess(TdKey(d), TdKey(timedelta(0, r + 1, 0)))
           /\ Val(td).args = [days |-> 1, seconds |-> 5, microseconds |-> 0]
                 => r = 86405
           /\ Val(td).args = [days |-> 0, seconds |-> 0, microseconds |-> 0]
                 => r = 0

\* C6 witness: minus half a second has been encoded, as -1.
C6_Witness ==
    /\ ~IsNone(td)
    /\ Val(td).args = [days |-> 0, seconds |-> 0, microseconds |-> -500000]
    /\ Val(td).json = Some(-1)

====
